---- MODULE Spec2Model ----
(***************************************************************************)
(* A model of the supervised-learning toolkit `si`: the Dataset container, *)
(* the LogisticRegression estimator, the KMer descriptor, cross_validate   *)
(* and grid_search.                                                        *)
(*                                                                         *)
(* Numbers.  The code computes in floating point.  Here a real r is the    *)
(* integer r * Scale ("units"), products are rescaled and every division   *)
(* rounds toward minus infinity.  Labels and l2_penalty are plain integers.*)
(* Python's None is the empty tuple, and a value v that may be None is     *)
(* <<v>>, so that a test against None never compares values of two kinds.  *)
(***************************************************************************)
EXTENDS Integers, Sequences, FiniteSets, TLC

VARIABLES
    \* the estimator and the calls made on it
    model,           \* the estimator instance: its attributes by name
    call,            \* the last call made on the estimator, and how it ended
    n_fits,          \* fit calls made so far
    \* grid_search and cross_validate
    pc,              \* the statement the running call is at
    caller,          \* the function called from outside
    heap,            \* the dicts the calls create, by identity
    parameter_grid,  \* grid_search: the grid, <<name, values>> in key order
    cv,              \* the number of folds asked for
    scoring,         \* the scoring function, or None
    combinations,    \* grid_search: what itertools.product has yet to yield
    parameters,      \* grid_search: the identity of the dict `parameters`
    gs_scores,       \* grid_search: the list `scores` (identities)
    cv_scores,       \* cross_validate: the identity of the dict `scores`
    cv_i,            \* cross_validate: the loop variable i
    train,           \* cross_validate: the fold's train partition
    test,            \* cross_validate: the fold's test partition
    cv_ret,          \* what cross_validate returned to grid_search
    result,          \* how the outer call ended
    model0,          \* the estimator as it was when the outer call began
    log,             \* the calls cross_validate has made, in order
    \* datasets
    dset,            \* the Dataset the last constructor call produced
    made_by,         \* the constructor path that call took
    frame,           \* the DataFrame and label given to from_dataframe
    frame_out        \* what to_dataframe made of dset

lrvars == <<model, call, n_fits>>
gsvars == <<pc, caller, heap, parameter_grid, cv, scoring, combinations,
            parameters, gs_scores, cv_scores, cv_i, train, test, cv_ret, result,
            model0, log>>
dsvars == <<dset, made_by, frame, frame_out>>
vars == <<lrvars, gsvars, dsvars>>

\* ------------------------------------------------------------------ bounds

\* Units per 1.0 of the fixed-point representation of floats.
Scale == 100
\* Largest max_iter an estimator is given.
MaxIter == 3
\* Most fit calls made on one estimator instance.
MaxFits == 2
\* Largest number of folds asked of cross_validate.
MaxCv == 2
\* Most keys of a parameter grid.
MaxKeys == 2
\* Most rows and most columns of a matrix or DataFrame given to Dataset.
MaxRows == 2
MaxCols == 2
\* Largest k of a KMer descriptor.
MaxK == 2

\* ------------------------------------------------------------ Python values

None == <<>>
Some(v) == <<v>>
Val(o) == o[1]

RECURSIVE SumSeq(_)
SumSeq(s) == IF s = <<>> THEN 0 ELSE Head(s) + SumSeq(Tail(s))

\* a * b of two fixed-point numbers
Fx(a, b) == (a * b) \div Scale

\* np.dot of two vectors
Dot(u, v) == SumSeq([k \in 1..Len(u) |-> Fx(u[k], v[k])])

\* ----------------------------------------------------------------- Dataset

\* Dataset.__init__; X is the tuple of rows.  n_cols is X.shape[1].
Shape(X) == <<Len(X), IF Len(X) = 0 THEN 0 ELSE Len(X[1])>>

RangeNames(n) == [k \in 1..n |-> ToString(k - 1)]

Dataset(X, y, features, label) ==
    [X        |-> X,
     y        |-> y,
     features |-> IF features = None THEN Some(RangeNames(Shape(X)[2]))
                  ELSE features,
     label    |-> IF y # None /\ label = None THEN Some("y") ELSE label]

get_shape(dataset) == Shape(dataset.X)

\* ------------------------------------------------------ LogisticRegression

\* 1e-4, the early-stopping threshold of fit, as ThresholdNum / ThresholdDen
ThresholdNum == 1
ThresholdDen == 10000

LogisticRegression(l2_penalty, alpha, max_iter) ==
    [l2_penalty   |-> l2_penalty,
     alpha        |-> alpha,
     max_iter     |-> max_iter,
     theta        |-> None,
     theta_zero   |-> None,
     cost_history |-> <<>>]

\* sigmoid_function, 1 / (1 + e^-z): the piecewise-linear 1/2 + z/4 kept
\* strictly between 0 and 1.
sigmoid_function(z) ==
    LET v == Scale \div 2 + z \div 4
    IN  IF v < 1 THEN 1 ELSE IF v > Scale - 1 THEN Scale - 1 ELSE v

\* np.log on (0, 1): 2 (p - 1) / (p + 1)
Log(p) == (2 * Scale * (p - Scale)) \div (p + Scale)

\* accuracy(y_true, y_pred): the share of equal entries
accuracy(y_true, y_pred) ==
    (Scale * Cardinality({j \in 1..Len(y_true) : y_true[j] = y_pred[j]}))
        \div Len(y_true)

\* np.dot(dataset.X, self.theta) + self.theta_zero
LinearScore(self, dataset) ==
    [j \in 1..Len(dataset.X) |->
        Dot(dataset.X[j], Val(self.theta)) + Val(self.theta_zero)]

\* what np.dot raises, if anything, for these parameters and this matrix
DotError(self, dataset) ==
    IF self.theta = None \/ self.theta_zero = None THEN "TypeError"
    ELSE IF Len(Val(self.theta)) # get_shape(dataset)[2] THEN "ValueError"
    ELSE "none"

Return(v) == [raised |-> "none", value |-> Some(v)]
Raise(e)  == [raised |-> e, value |-> None]

\* LogisticRegression.cost
cost(self, dataset) ==
    IF DotError(self, dataset) # "none" THEN Raise(DotError(self, dataset))
    ELSE
    LET m == get_shape(dataset)[1]
        z == LinearScore(self, dataset)
        predictions == [j \in 1..m |-> sigmoid_function(z[j])]
        y == Val(dataset.y)
        c == [j \in 1..m |-> (0 - y[j]) * Log(predictions[j])
                             - (1 - y[j]) * Log(Scale - predictions[j])]
        th == Val(self.theta)
        sq == SumSeq([k \in 1..Len(th) |-> Fx(th[k], th[k])])
    IN  Return(SumSeq(c) \div m + (self.l2_penalty * sq) \div (2 * m))

\* LogisticRegression.predict
predict(self, dataset) ==
    IF DotError(self, dataset) # "none" THEN Raise(DotError(self, dataset))
    ELSE
    LET z == LinearScore(self, dataset)
    IN  Return([j \in 1..Len(z) |->
                  IF 2 * sigmoid_function(z[j]) >= Scale THEN 1 ELSE 0])

\* LogisticRegression.score
score(self, dataset) ==
    LET y_pred == predict(self, dataset)
    IN  IF y_pred.raised # "none" THEN y_pred
        ELSE Return(accuracy(Val(dataset.y), Val(y_pred.value)))

\* fit without lines 64-65: a fitted estimator keeps its parameters when
\* they fit the new matrix (a warm start)
FitInitWarm(self, dataset) ==
    IF self.theta # None /\ Len(Val(self.theta)) = get_shape(dataset)[2]
    THEN self
    ELSE [self EXCEPT !.theta = Some([k \in 1..get_shape(dataset)[2] |-> 0]),
                      !.theta_zero = Some(0)]

\* fit, lines 62-65: the parameters start from zero
FitInit(self, dataset) ==
    [self EXCEPT !.theta = Some([k \in 1..get_shape(dataset)[2] |-> 0]),
                 !.theta_zero = Some(0)]

\* fit, lines 69-80: one gradient-descent update of theta and theta_zero
Update(self, dataset) ==
    LET m == get_shape(dataset)[1]
        n == get_shape(dataset)[2]
        th == Val(self.theta)
        y_pred == LinearScore(self, dataset)
        resid == [j \in 1..m |-> y_pred[j] - Val(dataset.y)[j] * Scale]
        gradient == [k \in 1..n |->
            (self.alpha * SumSeq([j \in 1..m |-> Fx(resid[j], dataset.X[j][k])]))
                \div (Scale * m)]
        penalization_term == [k \in 1..n |->
            (self.alpha * self.l2_penalty * th[k]) \div (Scale * m)]
    IN  [self EXCEPT
            !.theta = Some([k \in 1..n |->
                              th[k] - gradient[k] - penalization_term[k]]),
            !.theta_zero = Some(Val(self.theta_zero)
                                - (self.alpha * SumSeq(resid)) \div (Scale * m))]

\* self.cost_history[i] = c
Put(history, i, c) ==
    [k \in DOMAIN history \cup {i} |-> IF k = i THEN c ELSE history[k]]

\* fit, line 81
Record(self, dataset, i) ==
    [self EXCEPT !.cost_history = Put(@, i, Val(cost(self, dataset).value))]

\* the early-stopping test begun one iteration late (i > 1)
ConvergedLate(self, i) ==
    /\ i > 1
    /\ (self.cost_history[i - 1] - self.cost_history[i]) * ThresholdDen
           < ThresholdNum * Scale

\* fit, lines 83-84: the early-stopping test after iteration i
Converged(self, i) ==
    /\ i > 0
    /\ (self.cost_history[i - 1] - self.cost_history[i]) * ThresholdDen
           < ThresholdNum * Scale

\* fit, lines 68-86: the loop from iteration i on.  iters counts the
\* iterations the call has executed.
RECURSIVE FitLoop(_, _, _)
FitLoop(self, dataset, i) ==
    IF i >= self.max_iter THEN [self |-> self, iters |-> i]
    ELSE LET s == Record(Update(self, dataset), dataset, i)
         IN  IF Converged(s, i) THEN [self |-> s, iters |-> i + 1]
             ELSE FitLoop(s, dataset, i + 1)

\* LogisticRegression.fit.  The code returns self; iters is kept beside it.
fit(self, dataset) == FitLoop(FitInit(self, dataset), dataset, 0)

\* ------------------------------------------- the estimator and its callers

\* Labelled datasets the estimator is used on (X in units, y in {0, 1}).
D1 == Dataset(<<<<Scale>>, <<0 - Scale>>, <<3 * Scale>>>>, Some(<<1, 0, 1>>),
              None, None)
D2 == Dataset(<<<<Scale, 0>>, <<0, Scale>>>>, Some(<<1, 0>>), None, None)
Datasets == {D1, D2}

\* Values the hyperparameters are given: l2_penalty, alpha (units), max_iter.
L2Values == {0, 1}
AlphaValues == {Scale \div 100, Scale \div 2}
IterValues == 0..MaxIter
HyperValues(p) ==
    IF p = "l2_penalty" THEN L2Values
    ELSE IF p = "alpha" THEN AlphaValues ELSE IterValues
Hyperparameters == {"l2_penalty", "alpha", "max_iter"}

\* setattr(obj, name, value)
setattr(obj, name, value) ==
    [a \in DOMAIN obj \cup {name} |-> IF a = name THEN value ELSE obj[a]]

\* hasattr(obj, name)
hasattr(obj, name) == name \in DOMAIN obj

Called(op, dataset, iters, res) ==
    [op |-> op, dataset |-> dataset, iters |-> iters,
     raised |-> res.raised, value |-> res.value]

NoCall == Called("__init__", None, 0, Raise("none"))

IdleDS ==
    /\ dset = None /\ made_by = "none" /\ frame = None /\ frame_out = None

IdleGS ==
    /\ pc = "idle" /\ caller = "none" /\ heap = <<>>
    /\ parameter_grid = <<>> /\ cv = 0 /\ scoring = None
    /\ combinations = <<>> /\ parameters = 0 /\ gs_scores = <<>>
    /\ cv_scores = 0 /\ cv_i = 0 /\ train = None /\ test = None
    /\ cv_ret = None /\ result = Raise("none") /\ model0 = None
    /\ log = <<>>

InitLR ==
    /\ \E l \in L2Values, a \in AlphaValues, mi \in IterValues :
           model = LogisticRegression(l, a, mi)
    /\ call = NoCall
    /\ n_fits = 0
    /\ IdleGS
    /\ IdleDS

\* a caller assigns a hyperparameter, as grid_search does with setattr
SetAttr(p, v) ==
    /\ model' = setattr(model, p, v)
    /\ call' = Called("setattr", None, 0, Raise("none"))
    /\ UNCHANGED <<n_fits, gsvars, dsvars>>

Fit(d) ==
    LET r == fit(model, d)
    IN  /\ model' = r.self
        /\ call' = Called("fit", Some(d), r.iters, Raise("none"))
        /\ UNCHANGED <<gsvars, dsvars>>

Predict(d) ==
    /\ call' = Called("predict", Some(d), 0, predict(model, d))
    /\ UNCHANGED <<model, n_fits, gsvars, dsvars>>

Score(d) ==
    /\ call' = Called("score", Some(d), 0, score(model, d))
    /\ UNCHANGED <<model, n_fits, gsvars, dsvars>>

Cost(d) ==
    /\ call' = Called("cost", Some(d), 0, cost(model, d))
    /\ UNCHANGED <<model, n_fits, gsvars, dsvars>>

\* An estimator reconfigured and refit by its callers.
NextLR ==
    \/ \E p \in Hyperparameters : \E v \in HyperValues(p) : SetAttr(p, v)
    \/ \E d \in Datasets : n_fits < MaxFits /\ Fit(d) /\ n_fits' = n_fits + 1

SpecLR == InitLR /\ [][NextLR]_vars

\* An estimator fitted and used.
NextUse ==
    \/ \E d \in Datasets : Fit(d) /\ UNCHANGED n_fits
    \/ \E d \in Datasets : Predict(d)
    \/ \E d \in Datasets : Score(d)
    \/ \E d \in Datasets : Cost(d)

SpecUse == InitLR /\ [][NextUse]_vars

\* -------------------------------------------------------- train_test_split

\* the test_size the callers pass (0.4)
TestSize == (2 * Scale) \div 5

\* the seeds np.random.randint(0, 1000) draws
RandomStates == {0, 1}

\* np.random.permutation(m) under seed random_state: a rotation
Permutation(m, random_state) ==
    [j \in 1..m |-> ((j - 1 + random_state) % m) + 1]

\* the rows idx of a dataset, as a Dataset
Take(dataset, idx) ==
    Dataset([j \in 1..Len(idx) |-> dataset.X[idx[j]]],
            Some([j \in 1..Len(idx) |-> Val(dataset.y)[idx[j]]]),
            dataset.features, dataset.label)

\* train_test_split(dataset, test_size, random_state)
train_test_split(dataset, test_size, random_state) ==
    LET m == get_shape(dataset)[1]
        n_test == (m * test_size) \div Scale
        perm == Permutation(m, random_state)
    IN  [train |-> Take(dataset, SubSeq(perm, n_test + 1, m)),
         test  |-> Take(dataset, SubSeq(perm, 1, n_test))]

\* ------------------------------------------- cross_validate and grid_search

\* the dataset the model-selection calls are given
GSData == Dataset(<<<<0>>, <<Scale>>, <<2 * Scale>>, <<3 * Scale>>>>,
                  Some(<<0, 1, 0, 1>>), Some(<<"x">>), Some("class"))

\* Parameter grids: a dict in key order, as a tuple of <<name, values>>.
\* theta is an attribute fit assigns; n_neighbors is no attribute of a
\* LogisticRegression.
GridKeys == {"l2_penalty", "max_iter", "theta", "n_neighbors"}
ValueLists(k) ==
    IF k = "l2_penalty" THEN {<<0>>, <<1, 0>>}
    ELSE IF k = "max_iter" THEN {<<2>>, <<1, 3>>, <<2, 2>>}
    ELSE IF k = "theta" THEN {<<Some(<<Scale>>)>>}
    ELSE {<<1>>}
GridItems == UNION {{<<k, vs>> : vs \in ValueLists(k)} : k \in GridKeys}
GridsOfLen(n) ==
    {grid \in [1..n -> GridItems] :
        \A a, b \in 1..n : a # b => grid[a][1] # grid[b][1]}
Grids == UNION {GridsOfLen(n) : n \in 0..MaxKeys}
Keys(grid) == [j \in 1..Len(grid) |-> grid[j][1]]
Values(grid) == [j \in 1..Len(grid) |-> grid[j][2]]

\* what a scoring function returns: an uninterpreted term
Apply(f, y_true, s) == <<Val(f), y_true, s>>

\* itertools.product with the leftmost list varying fastest
RECURSIVE ProductLeftFastest(_)
ProductLeftFastest(lists) ==
    IF lists = <<>> THEN << <<>> >>
    ELSE LET h == Head(lists)
             rest == ProductLeftFastest(Tail(lists))
         IN  [q \in 1..(Len(h) * Len(rest)) |->
                <<h[((q - 1) % Len(h)) + 1]>>
                    \o rest[((q - 1) \div Len(h)) + 1]]

\* itertools.product(*lists), as the list of what it yields
RECURSIVE Product(_)
Product(lists) ==
    IF lists = <<>> THEN << <<>> >>
    ELSE LET h == Head(lists)
             rest == Product(Tail(lists))
         IN  [q \in 1..(Len(h) * Len(rest)) |->
                <<h[((q - 1) \div Len(rest)) + 1]>>
                    \o rest[((q - 1) % Len(rest)) + 1]]

\* a validation that looks at the first key only
FirstMissingHead(obj, keys, j) ==
    IF j <= Len(keys) /\ j = 1 /\ ~hasattr(obj, keys[j]) THEN j ELSE 0

\* grid_search, lines 11-13: the first key from j on that is no attribute
\* of the model, or 0
RECURSIVE FirstMissing(_, _, _)
FirstMissing(obj, keys, j) ==
    IF j > Len(keys) THEN 0
    ELSE IF ~hasattr(obj, keys[j]) THEN j
    ELSE FirstMissing(obj, keys, j + 1)

\* the setattr loop leaving out the last key
RECURSIVE SetParametersButLast(_, _, _, _)
SetParametersButLast(obj, keys, combination, j) ==
    IF j >= Len(keys) THEN obj
    ELSE SetParametersButLast(setattr(obj, keys[j], combination[j]),
                              keys, combination, j + 1)

\* grid_search, lines 20-21: setattr for every key, from j on
RECURSIVE SetParameters(_, _, _, _)
SetParameters(obj, keys, combination, j) ==
    IF j > Len(keys) THEN obj
    ELSE SetParameters(setattr(obj, keys[j], combination[j]),
                       keys, combination, j + 1)

\* grid_search, lines 18-22: the dict `parameters` once the loop has run
ParametersDict(keys, combination) ==
    [k \in {keys[j] : j \in 1..Len(keys)} |->
        combination[CHOOSE j \in 1..Len(keys) : keys[j] = k]]

\* list.append through a dict entry: d[key].append(v)
AppendTo(d, key, v) == [d EXCEPT ![key] = Append(@, v)]

InitGS ==
    /\ model = LogisticRegression(1, Scale \div 2, 2)
    /\ call = NoCall
    /\ n_fits = 0
    /\ IdleGS
    /\ IdleDS

\* grid_search(model, dataset, parameter_grid, scoring, cv, test_size)
GridSearchCall(grid, c, s) ==
    /\ pc = "idle"
    /\ caller' = "grid_search"
    /\ parameter_grid' = grid
    /\ cv' = c
    /\ scoring' = s
    /\ model0' = Some(model)
    /\ pc' = "gs_validate"
    /\ UNCHANGED <<dsvars, lrvars, heap, combinations, parameters, gs_scores,
                   cv_scores, cv_i, train, test, cv_ret, result, log>>

\* cross_validate(model, dataset, scoring, cv, test_size) called directly
CrossValidateCall(c, s) ==
    /\ pc = "idle"
    /\ caller' = "cross_validate"
    /\ cv' = c
    /\ scoring' = s
    /\ model0' = Some(model)
    /\ pc' = "cv_entry"
    /\ UNCHANGED <<dsvars, lrvars, heap, parameter_grid, combinations, parameters,
                   gs_scores, cv_scores, cv_i, train, test, cv_ret, result,
                   log>>

\* grid_search, lines 10-16: the validation loop, scores = [], the product
GS_Validate ==
    /\ pc = "gs_validate"
    /\ LET bad == FirstMissing(model, Keys(parameter_grid), 1)
       IN  IF bad # 0
           THEN /\ result' = [raised |-> "AttributeError",
                              value |-> Some(Keys(parameter_grid)[bad])]
                /\ pc' = "raised"
                /\ UNCHANGED <<gs_scores, combinations>>
           ELSE /\ gs_scores' = <<>>
                /\ combinations' = Product(Values(parameter_grid))
                /\ pc' = "gs_loop"
                /\ UNCHANGED result
    /\ UNCHANGED <<dsvars, lrvars, caller, heap, parameter_grid, cv, scoring,
                   parameters, cv_scores, cv_i, train, test, cv_ret, model0,
                   log>>

\* grid_search, lines 16-24: the next combination, parameters = {}, the
\* setattr loop, and the call of cross_validate
GS_Combination ==
    /\ pc = "gs_loop"
    /\ combinations # <<>>
    /\ model' = SetParameters(model, Keys(parameter_grid),
                              Head(combinations), 1)
    /\ heap' = Append(heap, ParametersDict(Keys(parameter_grid),
                                           Head(combinations)))
    /\ parameters' = Len(heap) + 1
    /\ combinations' = Tail(combinations)
    /\ pc' = "cv_entry"
    /\ UNCHANGED <<dsvars, call, n_fits, caller, parameter_grid, cv, scoring,
                   gs_scores, cv_scores, cv_i, train, test, cv_ret, result,
                   model0, log>>

\* grid_search, line 31: the product is exhausted
GS_Return ==
    /\ pc = "gs_loop"
    /\ combinations = <<>>
    /\ result' = [raised |-> "none", value |-> Some(gs_scores)]
    /\ pc' = "done"
    /\ UNCHANGED <<dsvars, lrvars, caller, heap, parameter_grid, cv, scoring,
                   combinations, parameters, gs_scores, cv_scores, cv_i,
                   train, test, cv_ret, model0, log>>

\* cross_validate, lines 26-30: scores = {"seeds": [], "train": [], "test": []}
CV_Entry ==
    /\ pc = "cv_entry"
    /\ heap' = Append(heap, [seeds |-> <<>>, train |-> <<>>, test |-> <<>>])
    /\ cv_scores' = Len(heap) + 1
    /\ cv_i' = 0
    /\ pc' = "cv_loop"
    /\ UNCHANGED <<dsvars, lrvars, caller, parameter_grid, cv, scoring, combinations,
                   parameters, gs_scores, train, test, cv_ret, result, model0,
                   log>>

\* cross_validate, lines 31-36: a fold begins: the seed, the split
CV_Fold(random_state) ==
    /\ pc = "cv_loop"
    /\ cv_i < cv
    /\ heap' = [heap EXCEPT ![cv_scores] = AppendTo(@, "seeds", random_state)]
    /\ LET parts == train_test_split(GSData, TestSize, random_state)
       IN  /\ train' = Some(parts.train)
           /\ test' = Some(parts.test)
    /\ log' = Append(log, "split")
    /\ pc' = "cv_fit"
    /\ UNCHANGED <<dsvars, lrvars, caller, parameter_grid, cv, scoring, combinations,
                   parameters, gs_scores, cv_scores, cv_i, cv_ret, result,
                   model0>>

\* cross_validate, line 37: model.fit(train)
CV_Fit ==
    /\ pc = "cv_fit"
    /\ model' = fit(model, Val(train)).self
    /\ log' = Append(log, "fit")
    /\ pc' = "cv_score"
    /\ UNCHANGED <<dsvars, call, n_fits, caller, heap, parameter_grid, cv, scoring,
                   combinations, parameters, gs_scores, cv_scores, cv_i,
                   train, test, cv_ret, result, model0>>

\* where cross_validate returns to
Returned(value) ==
    IF caller = "grid_search"
    THEN /\ pc' = "gs_attach"
         /\ UNCHANGED result
    ELSE /\ pc' = "done"
         /\ result' = [raised |-> "none", value |-> value]

\* cross_validate, lines 39-49: the two scores are appended, and the
\* return statement inside the loop body returns scores
CV_Score ==
    /\ pc = "cv_score"
    /\ LET on_train == Val(score(model, Val(train)).value)
           on_test == Val(score(model, Val(test)).value)
           y_train == Val(train).y
           y_test == Val(test).y
       IN  heap' = [heap EXCEPT ![cv_scores] =
               IF scoring = None
               THEN AppendTo(AppendTo(@, "train", on_train), "test", on_test)
               ELSE AppendTo(AppendTo(@, "train",
                                      Apply(scoring, y_train, on_train)),
                             "test", Apply(scoring, y_test, on_train))]
    /\ log' = log \o <<"score", "score">>
    /\ cv_ret' = Some(cv_scores)
    /\ Returned(Some(cv_scores))
    /\ UNCHANGED <<dsvars, lrvars, caller, parameter_grid, cv, scoring, combinations,
                   parameters, gs_scores, cv_scores, cv_i, train, test,
                   model0>>

\* cross_validate, line 31 with range(cv) empty: the function ends without
\* a return statement and so returns None
CV_Exhausted ==
    /\ pc = "cv_loop"
    /\ cv_i >= cv
    /\ cv_ret' = None
    /\ Returned(None)
    /\ UNCHANGED <<dsvars, lrvars, caller, heap, parameter_grid, cv, scoring,
                   combinations, parameters, gs_scores, cv_scores, cv_i,
                   train, test, model0, log>>

\* grid_search, lines 27-30: score["parameters"] = parameters and
\* scores.append(score); item assignment on None is a TypeError
GS_Attach ==
    /\ pc = "gs_attach"
    /\ IF cv_ret = None
       THEN /\ result' = [raised |-> "TypeError", value |-> None]
            /\ pc' = "raised"
            /\ UNCHANGED <<heap, gs_scores>>
       ELSE /\ heap' = [heap EXCEPT ![Val(cv_ret)] =
                           Put(@, "parameters", parameters)]
            /\ gs_scores' = Append(gs_scores, Val(cv_ret))
            /\ pc' = "gs_loop"
            /\ UNCHANGED result
    /\ UNCHANGED <<dsvars, lrvars, caller, parameter_grid, cv, scoring, combinations,
                   parameters, cv_scores, cv_i, train, test, cv_ret, model0,
                   log>>

NextGS ==
    \/ \E grid \in Grids, c \in 0..MaxCv, s \in {None, Some("scoring")} :
           GridSearchCall(grid, c, s)
    \/ \E c \in 0..MaxCv, s \in {None, Some("scoring")} :
           CrossValidateCall(c, s)
    \/ GS_Validate
    \/ GS_Combination
    \/ GS_Return
    \/ CV_Entry
    \/ \E random_state \in RandomStates : CV_Fold(random_state)
    \/ CV_Fit
    \/ CV_Score
    \/ CV_Exhausted
    \/ GS_Attach

SpecGS == InitGS /\ [][NextGS]_vars

\* ------------------------------------------------- Dataset constructors

\* Matrices of m rows and n columns over two values, and label vectors.
Cells == {0, Scale}
Matrices ==
    UNION {[1..m -> [1..n -> Cells]] : m \in 1..MaxRows, n \in 1..MaxCols}
Vectors(m) == [1..m -> {0, 1}]
FeatureNames == <<"a", "b", "c", "d">>

\* pandas DataFrames: the column names and the rows.  The label column "y"
\* comes last, first, or not at all.
DataFrame(columns, rows) == [columns |-> columns, rows |-> rows]
ColumnLists ==
    UNION {{SubSeq(FeatureNames, 1, n),
            SubSeq(FeatureNames, 1, n - 1) \o <<"y">>,
            <<"y">> \o SubSeq(FeatureNames, 1, n - 1)} : n \in 1..MaxCols}
Frames ==
    UNION {{DataFrame(cols, rows) :
               rows \in UNION {[1..m -> [1..Len(cols) -> {0, 1}]] :
                                  m \in 1..MaxRows}} :
           cols \in ColumnLists}

\* the place of a column name, or 0
IndexOf(columns, name) ==
    IF \E j \in 1..Len(columns) : columns[j] = name
    THEN CHOOSE j \in 1..Len(columns) : columns[j] = name
    ELSE 0

\* a row without its j-th entry
Without(row, j) == SubSeq(row, 1, j - 1) \o SubSeq(row, j + 1, Len(row))

\* Dataset.from_dataframe(df, label)
from_dataframe(df, label) ==
    IF label # None /\ label # Some("")
    THEN LET j == IndexOf(df.columns, Val(label))
         IN  IF j = 0 THEN Raise("KeyError")
             ELSE Return(Dataset(
                     [r \in 1..Len(df.rows) |-> Without(df.rows[r], j)],
                     Some([r \in 1..Len(df.rows) |-> df.rows[r][j]]),
                     Some(df.columns), label))
    ELSE Return(Dataset(df.rows, None, Some(df.columns), label))

\* Dataset.to_dataframe: pd.DataFrame(X, columns=features) needs one name
\* per column; df[label] = y sets the column named label, adding it last
\* when there is none.
to_dataframe(self) ==
    IF Len(Val(self.features)) # get_shape(self)[2] THEN Raise("ValueError")
    ELSE IF self.y = None
    THEN Return(DataFrame(Val(self.features), self.X))
    ELSE LET cols == Val(self.features)
             j == IndexOf(cols, Val(self.label))
         IN  IF j = 0
             THEN Return(DataFrame(
                     Append(cols, Val(self.label)),
                     [r \in 1..Len(self.X) |->
                         Append(self.X[r], Val(self.y)[r])]))
             ELSE Return(DataFrame(
                     cols,
                     [r \in 1..Len(self.X) |->
                         [self.X[r] EXCEPT ![j] = Val(self.y)[r]]]))

\* KMer.__init__ with alphabet "dna"
Alphabet == <<"A", "T", "C", "G">>

\* KMer.fit: the k-mers, each the tuple of its letters
k_mers(k) == Product([j \in 1..k |-> Alphabet])

\* KMer._get_sequence_k_mer_composition
get_sequence_k_mer_composition(k, sequence) ==
    LET mers == k_mers(k)
        counts == [q \in 1..Len(mers) |->
            Cardinality({w \in 0..(Len(sequence) - k) :
                            SubSeq(sequence, w + 1, w + k) = mers[q]})]
    IN  [q \in 1..Len(mers) |-> (Scale * counts[q]) \div Len(sequence)]

\* KMer.fit_transform(dataset): the first column holds the sequences
fit_transform(k, dataset) ==
    Dataset([r \in 1..Len(dataset.X) |->
                get_sequence_k_mer_composition(k, dataset.X[r][1])],
            dataset.y, Some(k_mers(k)), dataset.label)

\* Datasets of sequences, labelled or not.
DnaSequences == {<<"A", "T">>, <<"A", "A", "C">>, <<"G", "C", "G", "C">>}
SequenceDatasets ==
    UNION {{Dataset(X, y, None, label) :
               X \in [1..m -> [1..1 -> DnaSequences]],
               y \in {None} \cup {Some(v) : v \in Vectors(m)},
               label \in {None}} : m \in 1..MaxRows}

\* One constructor call is followed through to its conversion back; the
\* constructors are pure, so calls do not influence one another.
InitDS ==
    /\ model = LogisticRegression(1, Scale \div 2, 2)
    /\ call = NoCall
    /\ n_fits = 0
    /\ IdleGS
    /\ IdleDS

Made(path, res, df) ==
    /\ made_by = "none"
    /\ dset' = res.value
    /\ made_by' = path
    /\ frame' = df
    /\ frame_out' = None
    /\ UNCHANGED <<lrvars, gsvars>>

\* Dataset(X, y, features, label) as documented: one name per column, a
\* label name only with a label vector.  Lines 21-22: X must not be None.
NewDataset(X, y, features, label) ==
    IF X = None THEN Made("Dataset", Raise("ValueError"), None)
    ELSE Made("Dataset", Return(Dataset(Val(X), y, features, label)), None)

\* Dataset.from_dataframe(df, label)
FromDataframe(df, label) ==
    Made("from_dataframe", from_dataframe(df, label), Some(<<df, label>>))

\* Dataset.from_random(n_samples, n_features, n_classes, features, label):
\* X and y are what the random generator drew
FromRandom(X, y, features, label) ==
    Made("from_random", Return(Dataset(X, Some(y), features, label)), None)

\* KMer(k).fit_transform(dataset)
KMerTransform(k, dataset) ==
    Made("KMer.transform", Return(fit_transform(k, dataset)), None)

\* dataset.to_dataframe()
ToDataframe ==
    /\ dset # None
    /\ frame_out = None
    /\ frame_out' = Some(to_dataframe(Val(dset)))
    /\ UNCHANGED <<lrvars, gsvars, dset, made_by, frame>>

NamesFor(X) == {None, Some(SubSeq(FeatureNames, 1, Shape(X)[2]))}

NextDS ==
    \/ \E X \in {None} \cup {Some(M) : M \in Matrices} :
       \E features \in IF X = None THEN {None} ELSE NamesFor(Val(X)) :
       \E y \in {None} \cup (IF X = None THEN {}
                             ELSE {Some(v) : v \in Vectors(Len(Val(X)))}) :
       \E label \in IF y = None THEN {None} ELSE {None, Some("y")} :
           NewDataset(X, y, features, label)
    \/ \E df \in Frames, label \in {None, Some(""), Some("y"), Some("z")} :
           FromDataframe(df, label)
    \/ \E X \in Matrices : \E y \in Vectors(Len(X)) :
       \E features \in NamesFor(X), label \in {None, Some("y")} :
           FromRandom(X, y, features, label)
    \/ \E k \in 1..MaxK, dataset \in SequenceDatasets :
           KMerTransform(k, dataset)
    \/ ToDataframe

SpecDS == InitDS /\ [][NextDS]_vars

\* --------------------------------------------------- claims: the estimator

\* The estimator after k gradient-descent updates from zero on dataset d.
RECURSIVE Updates(_, _, _)
Updates(self, d, k) ==
    IF k = 0 THEN FitInit(self, d) ELSE Update(Updates(self, d, k - 1), d)

\* The cost of iteration j (from 0) of a fit of `self` on d.
CostAt(self, d, j) == Val(cost(Updates(self, d, j + 1), d).value)

\* Iteration j is one at which cost[j-1] - cost[j] < 1e-4.
Stops(self, d, j) ==
    /\ j > 0
    /\ (CostAt(self, d, j - 1) - CostAt(self, d, j)) * ThresholdDen
           < ThresholdNum * Scale

\* C4: fit performs at most max_iter iterations; no iteration before its
\* last met the stopping condition, so it stops no later than the first
\* iteration i > 0 with cost[i-1] - cost[i] < 1e-4; it stops short of
\* max_iter only at such an iteration; and the parameters it leaves are
\* those of exactly that many updates.
C4_FitStopsInTime ==
    call.op = "fit" =>
        LET d == Val(call.dataset)
            k == call.iters
        IN  /\ k <= model.max_iter
            /\ \A j \in 0..(k - 2) : ~Stops(model, d, j)
            /\ k < model.max_iter => Stops(model, d, k - 1)
            /\ model.theta = Updates(model, d, k).theta
            /\ model.theta_zero = Updates(model, d, k).theta_zero

\* a fit that stopped before max_iter, at an iteration meeting the condition
C4_Witness ==
    /\ call.op = "fit"
    /\ call.iters >= 2
    /\ call.iters < model.max_iter
    /\ Stops(model, Val(call.dataset), call.iters - 1)

\* C5: when fit returns, cost_history holds exactly the entries of the
\* iterations that call executed, keyed 0..k-1.
C5_HistoryClearedPerFit ==
    call.op = "fit" => DOMAIN model.cost_history = 0..(call.iters - 1)

\* C6: predict, score or cost on an estimator never fitted ends in an
\* explicit "not fitted" error.
C6_UnfittedRaisesNotFitted ==
    (call.op \in {"predict", "score", "cost"} /\ model.theta = None)
        => call.raised = "NotFittedError"

\* C7: the theta, theta_zero and iteration count a fit leaves are those a
\* freshly constructed estimator with the same hyperparameters gets on
\* the same dataset, whatever was fitted before.
C7_RefitFromScratch ==
    call.op = "fit" =>
        LET fresh == fit(LogisticRegression(model.l2_penalty, model.alpha,
                                            model.max_iter),
                         Val(call.dataset))
        IN  /\ model.theta = fresh.self.theta
            /\ model.theta_zero = fresh.self.theta_zero
            /\ call.iters = fresh.iters

\* a second fit, on an estimator whose cost_history still holds an entry
\* of the first one
C7_Witness ==
    /\ call.op = "fit"
    /\ n_fits = 2
    /\ call.iters >= 2
    /\ DOMAIN model.cost_history # 0..(call.iters - 1)

\* ------------------------------------------------ claims: model selection

\* grid_search was called with this grid, and these are its keys' places
Places == 1..Len(parameter_grid)
KeyAt(j) == parameter_grid[j][1]
ValuesAt(j) == parameter_grid[j][2]

\* the product of the sizes of the value lists from place j on
RECURSIVE SizeFrom(_)
SizeFrom(j) ==
    IF j > Len(parameter_grid) THEN 1 ELSE Len(ValuesAt(j)) * SizeFrom(j + 1)

\* The q-th element (from 1) of the Cartesian product of the value lists,
\* in key order and each list's order, as a mapping from key to value.
NthCombination(q) ==
    [k \in {KeyAt(j) : j \in Places} |->
        LET j == CHOOSE jj \in Places : KeyAt(jj) = k
        IN  ValuesAt(j)[(((q - 1) \div SizeFrom(j + 1)) % Len(ValuesAt(j))) + 1]]

\* the q-th record of grid_search's list, and its 'parameters'
RecordAt(q) == heap[gs_scores[q]]
ParametersAt(q) == heap[RecordAt(q).parameters]

\* keys of the grid that are no attribute of the model grid_search was given
BadKeys == {KeyAt(j) : j \in {jj \in Places : ~hasattr(Val(model0), KeyAt(jj))}}

\* no value list of the grid holds a value twice
NoRepeatedValue ==
    \A j \in Places : \A a, b \in 1..Len(ValuesAt(j)) :
        a # b => ValuesAt(j)[a] # ValuesAt(j)[b]

GridSearchEnded == caller = "grid_search" /\ pc \in {"done", "raised"}

\* cross_validate has just returned
CrossValidateReturned ==
    \/ caller = "grid_search" /\ pc = "gs_attach"
    \/ caller = "cross_validate" /\ pc = "done"

\* C1: cross_validate with cv = n >= 1 returns a record whose seeds, train
\* and test lists each have length n.
C1_OneEntryPerFold ==
    (CrossValidateReturned /\ cv >= 1) =>
        /\ cv_ret # None
        /\ Len(heap[Val(cv_ret)].seeds) = cv
        /\ Len(heap[Val(cv_ret)].train) = cv
        /\ Len(heap[Val(cv_ret)].test) = cv

\* grid_search failed while attaching 'parameters' to what cross_validate
\* returned
AttachFailed ==
    caller = "grid_search" /\ pc = "raised" /\ result.raised = "TypeError"

\* C11: for every cv >= 0 cross_validate returns a record with exactly the
\* keys seeds, train and test, whose three lists are empty when cv = 0; it
\* never returns None, so grid_search never fails attaching 'parameters'
\* to the returned record.
C11_AlwaysARecord ==
    /\ CrossValidateReturned =>
           /\ cv_ret # None
           /\ DOMAIN heap[Val(cv_ret)] = {"seeds", "train", "test"}
           /\ cv = 0 =>
                  /\ heap[Val(cv_ret)].seeds = <<>>
                  /\ heap[Val(cv_ret)].train = <<>>
                  /\ heap[Val(cv_ret)].test = <<>>
    /\ ~AttachFailed

\* what C2 says of the records' number and order
GridProductOrder ==
    /\ pc = "done"
    /\ Len(gs_scores) = SizeFrom(1)
    /\ \A q \in 1..Len(gs_scores) : ParametersAt(q) = NthCombination(q)

\* C2 as stated: with every key an attribute of the model and cv >= 1,
\* grid_search returns one record per element of the Cartesian product, the
\* q-th tagged with the q-th element, and no two records carry the same
\* combination.
C2_Original ==
    (GridSearchEnded /\ BadKeys = {} /\ cv >= 1) =>
        /\ GridProductOrder
        /\ \A q, r \in 1..Len(gs_scores) :
               q # r => ParametersAt(q) # ParametersAt(r)

\* C2 as amended: the same, the combinations being pairwise different when
\* no value list holds a value twice.
C2_GridProduct ==
    (GridSearchEnded /\ BadKeys = {} /\ cv >= 1) =>
        /\ GridProductOrder
        /\ NoRepeatedValue =>
               \A q, r \in 1..Len(gs_scores) :
                   q # r => ParametersAt(q) # ParametersAt(r)

\* a grid of two keys with two different values each, searched to the end
C2_Witness ==
    /\ GridSearchEnded /\ BadKeys = {} /\ cv >= 1
    /\ Len(parameter_grid) = 2
    /\ NoRepeatedValue
    /\ Len(gs_scores) = 4

\* C3: with a key that is no attribute of the model, grid_search raises an
\* AttributeError naming such a key, having run no split, fit or score,
\* changed no attribute of the model and built no result list.
C3_FailFast ==
    (caller = "grid_search" /\ BadKeys # {}) =>
        /\ pc \in {"gs_validate", "raised"}
        /\ log = <<>>
        /\ model = Val(model0)
        /\ heap = <<>>
        /\ gs_scores = <<>>
        /\ pc = "raised" =>
               /\ result.raised = "AttributeError"
               /\ Val(result.value) \in BadKeys

\* the offending key is the second of the grid, after a valid one
C3_Witness ==
    /\ caller = "grid_search"
    /\ pc = "raised"
    /\ result.raised = "AttributeError"
    /\ Len(parameter_grid) = 2
    /\ KeyAt(1) \notin BadKeys
    /\ KeyAt(2) \in BadKeys

\* C8: in the fold cross_validate ran, the model is as fit on the fold's
\* train partition leaves it, the entry appended to 'train' is made of its
\* score on the train partition and the entry appended to 'test' of its
\* score on the test partition, with or without a scoring function.
C8_ScoresOfTheirPartition ==
    (CrossValidateReturned /\ cv_ret # None) =>
        LET rec == heap[Val(cv_ret)]
            on_train == Val(score(model, Val(train)).value)
            on_test == Val(score(model, Val(test)).value)
        IN  /\ model = fit(model, Val(train)).self
            /\ rec.train[Len(rec.train)] =
                   IF scoring = None THEN on_train
                   ELSE Apply(scoring, Val(train).y, on_train)
            /\ rec.test[Len(rec.test)] =
                   IF scoring = None THEN on_test
                   ELSE Apply(scoring, Val(test).y, on_test)

\* the attributes fit assigns (lines 64, 65 and 81)
FitAssigned == {"theta", "theta_zero", "cost_history"}

\* grid_search is running cross_validate for the combination in `parameters`
Evaluating ==
    /\ caller = "grid_search"
    /\ pc \in {"cv_entry", "cv_loop", "cv_fit", "cv_score", "gs_attach"}

\* While a combination is evaluated (before and after the fit, and after
\* the scores), the model holds the combination's value for each of `keys`;
\* the record appended is tagged with that combination; and on return the
\* model holds the last combination's values for `keys`.
Configured(keys) ==
    /\ Evaluating => \A k \in keys : model[k] = heap[parameters][k]
    /\ (caller = "grid_search" /\ pc = "gs_loop" /\ gs_scores # <<>>) =>
           /\ RecordAt(Len(gs_scores)).parameters = parameters
           /\ \A k \in keys : model[k] = heap[parameters][k]
    /\ (caller = "grid_search" /\ pc = "done" /\ gs_scores # <<>>) =>
           \A j \in Places :
               KeyAt(j) \in keys =>
                   model[KeyAt(j)] = ValuesAt(j)[Len(ValuesAt(j))]

\* grid_search changes no hyperparameter the grid does not name, and every
\* record and every 'parameters' mapping is an object of its own.
FrameOfGridSearch ==
    caller = "grid_search" =>
        /\ \A a \in Hyperparameters \ {KeyAt(j) : j \in Places} :
               model[a] = Val(model0)[a]
        /\ \A q, r \in 1..Len(gs_scores) :
               q # r => /\ gs_scores[q] # gs_scores[r]
                        /\ RecordAt(q).parameters # RecordAt(r).parameters
        /\ \A q \in 1..Len(gs_scores) :
               /\ RecordAt(q).parameters # gs_scores[q]
               /\ Evaluating => RecordAt(q).parameters # parameters

\* a record once appended, and its 'parameters', stay as they are
RecordsKept ==
    (caller = "grid_search" /\ caller' = "grid_search") =>
        \A q \in 1..Len(gs_scores) :
            /\ Len(gs_scores') >= q
            /\ gs_scores'[q] = gs_scores[q]
            /\ heap'[gs_scores[q]] = heap[gs_scores[q]]
            /\ heap'[RecordAt(q).parameters] = heap[RecordAt(q).parameters]

\* C10 as stated, for every attribute the grid names.
C10_Original ==
    Configured({KeyAt(j) : j \in Places}) /\ FrameOfGridSearch

\* C10 as amended: for every attribute the grid names that fit does not
\* itself assign, the model holds the record's value during the fits and
\* scores that produce the record and, for the last combination, on return;
\* hyperparameters the grid does not name are never changed; records and
\* 'parameters' mappings are objects of their own and are never modified
\* once appended.
C10_Reconfigured ==
    /\ [](Configured({KeyAt(j) : j \in Places} \ FitAssigned)
            /\ FrameOfGridSearch)
    /\ [][RecordsKept]_vars

\* the second of several combinations has been evaluated, with a grid that
\* leaves a hyperparameter unnamed
C10_Witness ==
    /\ caller = "grid_search"
    /\ pc = "gs_attach"
    /\ cv_ret # None
    /\ Len(gs_scores) = 1
    /\ Len(parameter_grid) = 2
    /\ heap[parameters] # ParametersAt(1)


\* --------------------------------------------------------- claims: Dataset

\* the DataFrame df without its column `name`
Dropped(df, name) ==
    LET j == IndexOf(df.columns, name)
    IN  DataFrame(Without(df.columns, j),
                  [r \in 1..Len(df.rows) |-> Without(df.rows[r], j)])

\* the column `name` of df
Column(df, name) ==
    [r \in 1..Len(df.rows) |-> df.rows[r][IndexOf(df.columns, name)]]

\* C9: every Dataset a constructor path produces has one feature name per
\* column of X and a label name exactly when it has a label vector; and a
\* Dataset made by from_dataframe(df, label) converts back to the feature
\* columns, the label column and the names of df.
C9_DatasetWellFormed ==
    dset # None =>
        LET d == Val(dset)
        IN  /\ Len(Val(d.features)) = get_shape(d)[2]
            /\ d.label # None <=> d.y # None
            /\ (made_by = "from_dataframe" /\ frame_out # None
                    /\ Val(frame)[2] = Some("y")) =>
                   LET df == Val(frame)[1]
                       out == Val(frame_out)
                   IN  /\ out.raised = "none"
                       /\ Dropped(Val(out.value), "y") = Dropped(df, "y")
                       /\ Column(Val(out.value), "y") = Column(df, "y")

====
